---- MODULE Spec2Model ----
(***************************************************************************)
(* A model of two console programs of the repository:                     *)
(*   sem1_prog_tic-tac-toe/main.py  the two-player game loop               *)
(*   sem1_prog_task-2/main.py       the Russian number-words calculator    *)
(*                                                                         *)
(* Text.  A Python str is modelled as the sequence of its characters, a    *)
(* character being a one-letter TLA+ string.  The Cyrillic letters of the  *)
(* calculator's vocabulary are written in Latin transliteration, one       *)
(* model character per Cyrillic letter:                                    *)
(*   a b v g d e zh z i k l m n o p r s t u ch sh y ya and "'" (soft sign) *)
(* so that equality and prefix tests on words are those of the source.     *)
(***************************************************************************)
EXTENDS Integers, Sequences, FiniteSets, TLC

VARIABLES
    \* sem1_prog_tic-tac-toe/main.py: the locals of main()
    board,          \* 3x3 grid of " ", "X", "O", indexed 0..2
    current,        \* the player whose mark the next move places
    move_number,    \* moves made so far
    gpc,            \* "input": at the prompt of the loop; "ended": main returned
    output,         \* the last message the loop printed
    \* sem1_prog_task-2/main.py: one call of calc(expr)
    c_expr,         \* the line given to calc
    c_pc,           \* "start", "evaluate", "render", "returned" or "raised"
    c_scan,         \* parse_expression: tokens, op_symbol, left_tokens, right_tokens
    c_parsed,       \* what parse_expression returned or raised
    c_res,          \* what the if/elif chain of calc computed or raised
    c_words,        \* what rational_to_words returned or raised
    \* sem1_prog_task-2/main.py: a value rendered, and its words parsed back
    t_value,        \* [kind |-> "int", n |-> n] or [kind |-> "frac", k |-> k, d |-> d]
    t_pc,           \* "start", "rendered" or "parsed"
    t_words,        \* what the renderer returned or raised
    t_back,         \* what parse_number returned or raised on the words' tokens
    \* sem1_prog_task-2/main.py: one call of rational_to_words, in its loop
    l_x,            \* the Fraction given to rational_to_words
    l_q,            \* q: its denominator
    loop            \* r, pos, digits, seen, period_digits, and the place reached

gameVars == <<board, current, move_number, gpc, output>>
calcVars == <<c_expr, c_pc, c_scan, c_parsed, c_res, c_words>>
tripVars == <<t_value, t_pc, t_words, t_back>>
loopVars == <<l_x, l_q, loop>>

vars == <<gameVars, calcVars, tripVars, loopVars>>

-----------------------------------------------------------------------------
(* Strings *)

SPACE == " "

\* str.split(): the maximal runs of non-blank characters, in order.
RECURSIVE SplitFrom(_, _, _)
SplitFrom(s, i, word) ==
    IF i > Len(s)
    THEN IF word = <<>> THEN <<>> ELSE <<word>>
    ELSE IF s[i] = SPACE
         THEN IF word = <<>>
              THEN SplitFrom(s, i + 1, <<>>)
              ELSE <<word>> \o SplitFrom(s, i + 1, <<>>)
         ELSE SplitFrom(s, i + 1, Append(word, s[i]))

Split(s) == SplitFrom(s, 1, <<>>)

\* " ".join(parts)
RECURSIVE Join(_)
Join(parts) ==
    IF parts = <<>> THEN <<>>
    ELSE IF Len(parts) = 1 THEN parts[1]
    ELSE parts[1] \o <<SPACE>> \o Join(Tail(parts))

\* str.strip()
RECURSIVE LStrip(_)
LStrip(s) == IF s # <<>> /\ s[1] = SPACE THEN LStrip(Tail(s)) ELSE s

RECURSIVE RStrip(_)
RStrip(s) ==
    IF s # <<>> /\ s[Len(s)] = SPACE THEN RStrip(SubSeq(s, 1, Len(s) - 1)) ELSE s

Strip(s) == RStrip(LStrip(s))

\* str.lower() on the characters the inputs use
UPPER == [Q |-> "q", U |-> "u", I |-> "i", T |-> "t", O |-> "o", P |-> "p", D |-> "d"]

LowerChar(ch) == IF ch \in DOMAIN UPPER THEN UPPER[ch] ELSE ch

Lower(s) == [i \in 1..Len(s) |-> LowerChar(s[i])]

-----------------------------------------------------------------------------
(* sem1_prog_tic-tac-toe/main.py *)

PLAYERS == <<"X", "O">>

QUIT_COMMAND == <<"q", "u", "i", "t">>

EMPTY == " "

make_empty_board == [r \in 0..2 |-> [c \in 0..2 |-> EMPTY]]

None == "None"

check_winner(b) ==
    IF \E r \in 0..2 : b[r][0] # EMPTY /\ b[r][0] = b[r][1] /\ b[r][1] = b[r][2]
    THEN LET r == CHOOSE r \in 0..2 :
                    /\ b[r][0] # EMPTY /\ b[r][0] = b[r][1] /\ b[r][1] = b[r][2]
                    /\ \A r2 \in 0..2 :
                         (b[r2][0] # EMPTY /\ b[r2][0] = b[r2][1] /\ b[r2][1] = b[r2][2])
                             => r <= r2
         IN b[r][0]
    ELSE IF \E c \in 0..2 : b[0][c] # EMPTY /\ b[0][c] = b[1][c] /\ b[1][c] = b[2][c]
    THEN LET c == CHOOSE c \in 0..2 :
                    /\ b[0][c] # EMPTY /\ b[0][c] = b[1][c] /\ b[1][c] = b[2][c]
                    /\ \A c2 \in 0..2 :
                         (b[0][c2] # EMPTY /\ b[0][c2] = b[1][c2] /\ b[1][c2] = b[2][c2])
                             => c <= c2
         IN b[0][c]
    ELSE IF b[0][0] # EMPTY /\ b[0][0] = b[1][1] /\ b[1][1] = b[2][2]
    THEN b[0][0]
    ELSE IF b[0][2] # EMPTY /\ b[0][2] = b[1][1] /\ b[1][1] = b[2][0]
    THEN b[0][2]
    ELSE None

board_full(b) == \A r \in 0..2 : \A c \in 0..2 : b[r][c] # EMPTY

\* str.isdigit(): every character is a digit character, and there is one.
\* "sup2" stands for a digit character that is not decimal (such as a
\* superscript two): isdigit() accepts it and int() raises ValueError.
DECIMALS == [c \in {"0", "1", "2", "3", "4", "5", "6", "7", "8", "9"} |->
               CASE c = "0" -> 0 [] c = "1" -> 1 [] c = "2" -> 2 [] c = "3" -> 3
                 [] c = "4" -> 4 [] c = "5" -> 5 [] c = "6" -> 6 [] c = "7" -> 7
                 [] c = "8" -> 8 [] c = "9" -> 9]

DIGIT_CHARS == DOMAIN DECIMALS \cup {"sup2"}

isdigit(s) == s # <<>> /\ \A i \in 1..Len(s) : s[i] \in DIGIT_CHARS

\* int(s) for a string of digit characters; ValueError when one is not decimal.
int_ok(s) == \A i \in 1..Len(s) : s[i] \in DOMAIN DECIMALS

RECURSIVE int(_)
int(s) == IF s = <<>> THEN 0
          ELSE 10 * int(SubSeq(s, 1, Len(s) - 1)) + DECIMALS[s[Len(s)]]

ParseResult(ok, msg, row, col) == [ok |-> ok, msg |-> msg, row |-> row, col |-> col]

MSG_TWO_NUMBERS == "Expected two numbers: row and column (separated by space)"
MSG_NOT_NUMBERS == "Both inputs must be numbers"
MSG_RANGE == "Both numbers must be in the range 1..3"
MSG_QUIT == "quit"
MSG_OCCUPIED == "Cell is already occupied"
MSG_WINS == "wins"
MSG_DRAW == "Game over! It's a draw"
MSG_PROMPT == "Input coordinates (row column): "
MSG_ERROR == "ValueError"

\* parse_input; "raise" marks the ValueError that int() raises.
parse_input(line) ==
    LET i == Strip(line)
        parts == Split(i)
    IN  IF Lower(i) = QUIT_COMMAND
        THEN ParseResult(TRUE, MSG_QUIT, None, None)
        ELSE IF Len(parts) # 2
        THEN ParseResult(FALSE, MSG_TWO_NUMBERS, None, None)
        ELSE IF ~(isdigit(parts[1]) /\ isdigit(parts[2]))
        THEN ParseResult(FALSE, MSG_NOT_NUMBERS, None, None)
        ELSE IF ~(int_ok(parts[1]) /\ int_ok(parts[2]))
        THEN ParseResult(FALSE, "raise", None, None)
        ELSE LET row == int(parts[1])
                 col == int(parts[2])
             IN  IF ~(1 <= row /\ row <= 3 /\ 1 <= col /\ col <= 3)
                 THEN ParseResult(FALSE, MSG_RANGE, None, None)
                 ELSE ParseResult(TRUE, "", row - 1, col - 1)

\* The lines typed at the prompt.
ValidTokens == {<<"1">>, <<"2">>, <<"3">>}

GameInputs ==
    {Join(<<a, b>>) : a \in ValidTokens, b \in ValidTokens}
        \cup {Join(<<<<"0">>, <<"1">>>>), Join(<<<<"1">>, <<"4">>>>),
              Join(<<<<"0", "2">>, <<"3">>>>), Join(<<<<"x">>, <<"1">>>>),
              Join(<<<<"1">>, <<"sup2">>>>),
              <<>>, <<"2">>, <<"1", SPACE, "2", SPACE, "3">>,
              <<SPACE, "2", SPACE, SPACE, "3", SPACE>>,
              QUIT_COMMAND, <<SPACE, "Q", "u", "i", "t">>,
              <<"q", "u", "i", "t", SPACE, "1">>}

\* One pass of the loop of main() whose input parse_input rejects (continue).
RejectInput(line) ==
    LET p == parse_input(line)
    IN  /\ gpc = "input"
        /\ ~p.ok /\ p.msg # "raise"
        /\ output' = p.msg
        /\ UNCHANGED <<board, current, move_number, gpc>>
        /\ UNCHANGED <<calcVars, tripVars, loopVars>>

\* int() raised ValueError inside parse_input: main() catches it and returns.
InputFault(line) ==
    LET p == parse_input(line)
    IN  /\ gpc = "input"
        /\ ~p.ok /\ p.msg = "raise"
        /\ gpc' = "ended"
        /\ output' = MSG_ERROR
        /\ UNCHANGED <<board, current, move_number>>
        /\ UNCHANGED <<calcVars, tripVars, loopVars>>

\* The quit command: main() returns.
Quit(line) ==
    LET p == parse_input(line)
    IN  /\ gpc = "input"
        /\ p.ok /\ p.msg = MSG_QUIT
        /\ gpc' = "ended"
        /\ output' = MSG_QUIT
        /\ UNCHANGED <<board, current, move_number>>
        /\ UNCHANGED <<calcVars, tripVars, loopVars>>

\* KeyboardInterrupt at the prompt: main() returns.
Interrupt ==
    /\ gpc = "input"
    /\ gpc' = "ended"
    /\ output' = "KeyboardInterrupt"
    /\ UNCHANGED <<board, current, move_number>>
    /\ UNCHANGED <<calcVars, tripVars, loopVars>>

\* A well-formed move onto an occupied cell (continue).
Occupied(line) ==
    LET p == parse_input(line)
    IN  /\ gpc = "input"
        /\ p.ok /\ p.msg # MSG_QUIT
        /\ board[p.row][p.col] # EMPTY
        /\ output' = MSG_OCCUPIED
        /\ UNCHANGED <<board, current, move_number, gpc>>
        /\ UNCHANGED <<calcVars, tripVars, loopVars>>

\* The move without the test of lines 112-114: the mark is placed on any cell.
Move_unchecked(line) ==
    LET p == parse_input(line)
    IN  /\ gpc = "input"
        /\ p.ok /\ p.msg # MSG_QUIT
        /\ LET b2 == [board EXCEPT ![p.row][p.col] = current]
               m2 == move_number + 1
           IN  /\ board' = b2
               /\ move_number' = m2
               /\ IF check_winner(b2) # None
                  THEN /\ gpc' = "ended"
                       /\ output' = MSG_WINS
                       /\ current' = current
                  ELSE IF board_full(b2)
                  THEN /\ gpc' = "ended"
                       /\ output' = MSG_DRAW
                       /\ current' = current
                  ELSE /\ gpc' = "input"
                       /\ output' = MSG_PROMPT
                       /\ current' = PLAYERS[(m2 % 2) + 1]
        /\ UNCHANGED <<calcVars, tripVars, loopVars>>

\* A move onto a free cell: the mark is placed, then win, draw or player change.
Move(line) ==
    LET p == parse_input(line)
    IN  /\ gpc = "input"
        /\ p.ok /\ p.msg # MSG_QUIT
        /\ board[p.row][p.col] = EMPTY
        /\ LET b2 == [board EXCEPT ![p.row][p.col] = current]
               m2 == move_number + 1
           IN  /\ board' = b2
               /\ move_number' = m2
               /\ IF check_winner(b2) # None
                  THEN /\ gpc' = "ended"
                       /\ output' = MSG_WINS
                       /\ current' = current
                  ELSE IF board_full(b2)
                  THEN /\ gpc' = "ended"
                       /\ output' = MSG_DRAW
                       /\ current' = current
                  ELSE /\ gpc' = "input"
                       /\ output' = MSG_PROMPT
                       /\ current' = PLAYERS[(m2 % 2) + 1]
        /\ UNCHANGED <<calcVars, tripVars, loopVars>>

-----------------------------------------------------------------------------
(* sem1_prog_task-2/main.py: vocabulary *)

W_nol == <<"n", "o", "l", "'">>
W_odin == <<"o", "d", "i", "n">>
W_dva == <<"d", "v", "a">>
W_tri == <<"t", "r", "i">>
W_chetyre == <<"ch", "e", "t", "y", "r", "e">>
W_pyat == <<"p", "ya", "t", "'">>
W_shest == <<"sh", "e", "s", "t", "'">>
W_sem == <<"s", "e", "m", "'">>
W_vosem == <<"v", "o", "s", "e", "m", "'">>
W_devyat == <<"d", "e", "v", "ya", "t", "'">>
W_desyat == <<"d", "e", "s", "ya", "t", "'">>
W_odinnadcat == <<"o", "d", "i", "n", "n", "a", "d", "c", "a", "t", "'">>
W_dvenadcat == <<"d", "v", "e", "n", "a", "d", "c", "a", "t", "'">>
W_trinadcat == <<"t", "r", "i", "n", "a", "d", "c", "a", "t", "'">>
W_chetyrnadcat == <<"ch", "e", "t", "y", "r", "n", "a", "d", "c", "a", "t", "'">>
W_pyatnadcat == <<"p", "ya", "t", "n", "a", "d", "c", "a", "t", "'">>
W_shestnadcat == <<"sh", "e", "s", "t", "n", "a", "d", "c", "a", "t", "'">>
W_semnadcat == <<"s", "e", "m", "n", "a", "d", "c", "a", "t", "'">>
W_vosemnadcat == <<"v", "o", "s", "e", "m", "n", "a", "d", "c", "a", "t", "'">>
W_devyatnadcat == <<"d", "e", "v", "ya", "t", "n", "a", "d", "c", "a", "t", "'">>
W_dvadcat == <<"d", "v", "a", "d", "c", "a", "t", "'">>
W_tridcat == <<"t", "r", "i", "d", "c", "a", "t", "'">>
W_sorok == <<"s", "o", "r", "o", "k">>
W_pyatdesyat == <<"p", "ya", "t", "'", "d", "e", "s", "ya", "t">>
W_shestdesyat == <<"sh", "e", "s", "t", "'", "d", "e", "s", "ya", "t">>
W_semdesyat == <<"s", "e", "m", "'", "d", "e", "s", "ya", "t">>
W_vosemdesyat == <<"v", "o", "s", "e", "m", "'", "d", "e", "s", "ya", "t">>
W_devyanosto == <<"d", "e", "v", "ya", "n", "o", "s", "t", "o">>
W_sto == <<"s", "t", "o">>
W_dvesti == <<"d", "v", "e", "s", "t", "i">>
W_trista == <<"t", "r", "i", "s", "t", "a">>
W_chetyresta == <<"ch", "e", "t", "y", "r", "e", "s", "t", "a">>
W_pyatsot == <<"p", "ya", "t", "'", "s", "o", "t">>
W_shestsot == <<"sh", "e", "s", "t", "'", "s", "o", "t">>
W_semsot == <<"s", "e", "m", "'", "s", "o", "t">>
W_vosemsot == <<"v", "o", "s", "e", "m", "'", "s", "o", "t">>
W_devyatsot == <<"d", "e", "v", "ya", "t", "'", "s", "o", "t">>
W_odna == <<"o", "d", "n", "a">>
W_dve == <<"d", "v", "e">>
W_tysyacha == <<"t", "y", "s", "ya", "ch", "a">>
W_tysyachi == <<"t", "y", "s", "ya", "ch", "i">>
W_tysyach == <<"t", "y", "s", "ya", "ch">>
W_desyataya == <<"d", "e", "s", "ya", "t", "a", "ya">>
W_desyatyh == <<"d", "e", "s", "ya", "t", "y", "h">>
W_sotaya == <<"s", "o", "t", "a", "ya">>
W_sotyh == <<"s", "o", "t", "y", "h">>
W_tysyachnaya == <<"t", "y", "s", "ya", "ch", "n", "a", "ya">>
W_tysyachnyh == <<"t", "y", "s", "ya", "ch", "n", "y", "h">>
W_desyatitysyachnaya == <<"d", "e", "s", "ya", "t", "i", "t", "y", "s", "ya", "ch", "n", "a", "ya">>
W_desyatitysyachnyh == <<"d", "e", "s", "ya", "t", "i", "t", "y", "s", "ya", "ch", "n", "y", "h">>
W_stotysyachnaya == <<"s", "t", "o", "t", "y", "s", "ya", "ch", "n", "a", "ya">>
W_stotysyachnyh == <<"s", "t", "o", "t", "y", "s", "ya", "ch", "n", "y", "h">>
W_millionnaya == <<"m", "i", "l", "l", "i", "o", "n", "n", "a", "ya">>
W_millionnyh == <<"m", "i", "l", "l", "i", "o", "n", "n", "y", "h">>
W_plyus == <<"p", "l", "yu", "s">>
W_minus == <<"m", "i", "n", "u", "s">>
W_umnozhit == <<"u", "m", "n", "o", "zh", "i", "t", "'">>
W_razdelit == <<"r", "a", "z", "d", "e", "l", "i", "t", "'">>
W_ostatok == <<"o", "s", "t", "a", "t", "o", "k">>
W_ot == <<"o", "t">>
W_deleniya == <<"d", "e", "l", "e", "n", "i", "ya">>
W_na == <<"n", "a">>
W_i == <<"i">>
W_v == <<"v">>
W_periode == <<"p", "e", "r", "i", "o", "d", "e">>
P_million == <<"m", "i", "l", "l", "i", "o", "n">>
P_stotysyach == <<"s", "t", "o", "t", "y", "s", "ya", "ch">>
P_desyatitysyach == <<"d", "e", "s", "ya", "t", "i", "t", "y", "s", "ya", "ch">>
P_tysyach == <<"t", "y", "s", "ya", "ch">>
P_sot == <<"s", "o", "t">>
P_desyat == <<"d", "e", "s", "ya", "t">>

UNITS ==
    (W_nol :> 0) @@ (W_odin :> 1) @@ (W_dva :> 2) @@ (W_tri :> 3) @@ (W_chetyre :> 4)
        @@ (W_pyat :> 5) @@ (W_shest :> 6) @@ (W_sem :> 7) @@ (W_vosem :> 8)
        @@ (W_devyat :> 9)

TEENS ==
    (W_desyat :> 10) @@ (W_odinnadcat :> 11) @@ (W_dvenadcat :> 12)
        @@ (W_trinadcat :> 13) @@ (W_chetyrnadcat :> 14) @@ (W_pyatnadcat :> 15)
        @@ (W_shestnadcat :> 16) @@ (W_semnadcat :> 17) @@ (W_vosemnadcat :> 18)
        @@ (W_devyatnadcat :> 19)

TENS ==
    (W_dvadcat :> 20) @@ (W_tridcat :> 30) @@ (W_sorok :> 40) @@ (W_pyatdesyat :> 50)
        @@ (W_shestdesyat :> 60) @@ (W_semdesyat :> 70) @@ (W_vosemdesyat :> 80)
        @@ (W_devyanosto :> 90)

HUNDREDS ==
    (100 :> W_sto) @@ (200 :> W_dvesti) @@ (300 :> W_trista) @@ (400 :> W_chetyresta)
        @@ (500 :> W_pyatsot) @@ (600 :> W_shestsot) @@ (700 :> W_semsot)
        @@ (800 :> W_vosemsot) @@ (900 :> W_devyatsot)

\* {v: k for k, v in d.items()}
Reversed(d) ==
    [v \in {d[k] : k \in DOMAIN d} |-> CHOOSE k \in DOMAIN d : d[k] = v]

UNITS_R == Reversed(UNITS)
TEENS_R == Reversed(TEENS)
TENS_R == Reversed(TENS)
HUNDREDS_R == Reversed(HUNDREDS)

FEM_UNIT_ALIASES == (W_odna :> W_odin) @@ (W_dve :> W_dva)

DENOM_FORMS ==
    (10 :> <<W_desyataya, W_desyatyh>>) @@ (100 :> <<W_sotaya, W_sotyh>>)
        @@ (1000 :> <<W_tysyachnaya, W_tysyachnyh>>)
        @@ (10000 :> <<W_desyatitysyachnaya, W_desyatitysyachnyh>>)
        @@ (100000 :> <<W_stotysyachnaya, W_stotysyachnyh>>)
        @@ (1000000 :> <<W_millionnaya, W_millionnyh>>)

OP_PATTERNS ==
    << <<<<W_ostatok, W_ot, W_deleniya, W_na>>, "%">>,
       <<<<W_razdelit, W_na>>, "/">>,
       <<<<W_umnozhit, W_na>>, "*">>,
       <<<<W_ostatok, W_ot, W_deleniya>>, "%">>,
       <<<<W_razdelit>>, "/">>,
       <<<<W_umnozhit>>, "*">>,
       <<<<W_plyus>>, "+">>,
       <<<<W_minus>>, "-">>,
       <<<<W_ostatok>>, "%">> >>

AND_TOKEN == W_i

THOUSAND_FORMS == [one |-> W_tysyacha, few |-> W_tysyachi, many |-> W_tysyach]

\* dict.get(key, default)
Get(d, key, default) == IF key \in DOMAIN d THEN d[key] ELSE default

\* A call either returns a value or raises.
Ok(v) == [ok |-> TRUE, val |-> v, err |-> ""]
Raise(e) == [ok |-> FALSE, val |-> None, err |-> e]

-----------------------------------------------------------------------------
(* sem1_prog_task-2/main.py: the number parser *)

words_to_int_0_99(tokens) ==
    IF tokens = <<>>
    THEN Raise("ValueError: Expected a number in words (0..99)")
    ELSE IF Len(tokens) = 1
    THEN LET t == Get(FEM_UNIT_ALIASES, tokens[1], tokens[1])
         IN  IF t \in DOMAIN UNITS THEN Ok(UNITS[t])
             ELSE IF t \in DOMAIN TEENS THEN Ok(TEENS[t])
             ELSE IF t \in DOMAIN TENS THEN Ok(TENS[t])
             ELSE Raise("ValueError: Unknown number")
    ELSE IF Len(tokens) = 2
    THEN LET t1 == tokens[1]
             t2 == Get(FEM_UNIT_ALIASES, tokens[2], tokens[2])
         IN  IF t1 \in DOMAIN TENS /\ t2 \in DOMAIN UNITS /\ UNITS[t2] # 0
             THEN Ok(TENS[t1] + UNITS[t2])
             ELSE Raise("ValueError: Invalid number")
    ELSE Raise("ValueError: Too long number")

\* The loop of words_to_int_0_999 from token idx on.
RECURSIVE Sum_0_999(_, _, _, _)
Sum_0_999(tokens, idx, total, used_teens) ==
    IF idx > Len(tokens)
    THEN IF total < 0 \/ total > 999
         THEN Raise("ValueError: Out of supported range 0..999")
         ELSE Ok(total)
    ELSE LET t == Get(FEM_UNIT_ALIASES, tokens[idx], tokens[idx])
         IN  IF t \in DOMAIN HUNDREDS_R
             THEN Sum_0_999(tokens, idx + 1, total + HUNDREDS_R[t], used_teens)
             ELSE IF t \in DOMAIN TEENS
             THEN IF used_teens
                  THEN Raise("ValueError: Invalid number: duplicate teens segment")
                  ELSE Sum_0_999(tokens, idx + 1, total + TEENS[t], TRUE)
             ELSE IF t \in DOMAIN TENS
             THEN Sum_0_999(tokens, idx + 1, total + TENS[t], used_teens)
             ELSE IF t \in DOMAIN UNITS
             THEN Sum_0_999(tokens, idx + 1, total + UNITS[t], used_teens)
             ELSE Raise("ValueError: Unknown number token")

words_to_int_0_999(tokens) ==
    IF tokens = <<>>
    THEN Raise("ValueError: Expected number in words (0..999)")
    ELSE Sum_0_999(tokens, 1, 0, FALSE)

THOUSAND_WORDS == {W_tysyacha, W_tysyachi, W_tysyach}

words_to_int_0_999999(tokens) ==
    IF tokens = <<>>
    THEN Raise("ValueError: Expected number in words (0..999999)")
    ELSE IF ~\E i \in 1..Len(tokens) : tokens[i] \in THOUSAND_WORDS
    THEN words_to_int_0_999(tokens)
    ELSE LET thou_idx == CHOOSE i \in 1..Len(tokens) :
                            /\ tokens[i] \in THOUSAND_WORDS
                            /\ \A j \in 1..(i - 1) : tokens[j] \notin THOUSAND_WORDS
             left == SubSeq(tokens, 1, thou_idx - 1)
             right == SubSeq(tokens, thou_idx + 1, Len(tokens))
             thousands == IF left = <<>> THEN Ok(1) ELSE words_to_int_0_999(left)
             remainder == IF right = <<>> THEN Ok(0) ELSE words_to_int_0_999(right)
         IN  IF ~thousands.ok THEN thousands
             ELSE IF ~remainder.ok THEN remainder
             ELSE LET total == thousands.val * 1000 + remainder.val
                  IN  IF total < 0 \/ total > 999999
                      THEN Raise("ValueError: Out of supported range 0..999999")
                      ELSE Ok(total)

\* str.startswith
StartsWith(w, prefix) ==
    Len(w) >= Len(prefix) /\ SubSeq(w, 1, Len(prefix)) = prefix

\* An Optional result: Ok(v), or Nothing for None.
Nothing == [ok |-> FALSE, val |-> None, err |-> ""]

\* The prefixes tested shortest first: a longer denominator word is taken for
\* the shorter one it begins with.
denominator_from_word_shortest_first(w) ==
    IF StartsWith(w, P_desyat) THEN Ok(10)
    ELSE IF StartsWith(w, P_sot) THEN Ok(100)
    ELSE IF StartsWith(w, P_tysyach) THEN Ok(1000)
    ELSE IF StartsWith(w, P_desyatitysyach) THEN Ok(10000)
    ELSE IF StartsWith(w, P_stotysyach) THEN Ok(100000)
    ELSE IF StartsWith(w, P_million) THEN Ok(1000000)
    ELSE Nothing

denominator_from_word(w) ==
    IF StartsWith(w, P_million) THEN Ok(1000000)
    ELSE IF StartsWith(w, P_stotysyach) THEN Ok(100000)
    ELSE IF StartsWith(w, P_desyatitysyach) THEN Ok(10000)
    ELSE IF StartsWith(w, P_tysyach) THEN Ok(1000)
    ELSE IF StartsWith(w, P_sot) THEN Ok(100)
    ELSE IF StartsWith(w, P_desyat) THEN Ok(10)
    ELSE Nothing

\* fractions.Fraction(n, d) for d > 0: the pair in lowest terms.
RECURSIVE GCD(_, _)
GCD(a, b) == IF b = 0 THEN a ELSE GCD(b, a % b)

Abs(a) == IF a < 0 THEN -a ELSE a

Fraction(n, d) ==
    LET g == GCD(Abs(n), d) IN [numerator |-> n \div g, denominator |-> d \div g]

\* Exact arithmetic of Fraction: a + b, a - b, a * b, a / b (b > 0), and
\* a % b (b > 0), which is a - b * floor(a / b).
FAdd(a, b) ==
    Fraction(a.numerator * b.denominator + b.numerator * a.denominator,
             a.denominator * b.denominator)

\* The difference taken as a magnitude.
FSub_magnitude(a, b) ==
    Fraction(Abs(a.numerator * b.denominator - b.numerator * a.denominator),
             a.denominator * b.denominator)

FSub(a, b) ==
    Fraction(a.numerator * b.denominator - b.numerator * a.denominator,
             a.denominator * b.denominator)

FMul(a, b) == Fraction(a.numerator * b.numerator, a.denominator * b.denominator)

FDiv(a, b) == Fraction(a.numerator * b.denominator, a.denominator * b.numerator)

FMod(a, b) ==
    Fraction((a.numerator * b.denominator) % (b.numerator * a.denominator),
             a.denominator * b.denominator)

FLess(a, b) == a.numerator * b.denominator < b.numerator * a.denominator

ZERO == Fraction(0, 1)

\* The first index of x in tokens (list.index).
Index(tokens, x) ==
    CHOOSE i \in 1..Len(tokens) :
        tokens[i] = x /\ \A j \in 1..(i - 1) : tokens[j] # x

parse_number(tokens) ==
    IF tokens = <<>>
    THEN Raise("ValueError: Expected number tokens")
    ELSE IF \E i \in 1..Len(tokens) : tokens[i] = AND_TOKEN
    THEN LET i_idx == Index(tokens, AND_TOKEN)
             int_part_tokens == SubSeq(tokens, 1, i_idx - 1)
             frac_tokens == SubSeq(tokens, i_idx + 1, Len(tokens))
         IN  IF int_part_tokens = <<>> \/ Len(frac_tokens) < 2
             THEN Raise("ValueError: Invalid decimal format")
             ELSE LET integer == words_to_int_0_99(int_part_tokens)
                      frac_num_tokens == SubSeq(frac_tokens, 1, Len(frac_tokens) - 1)
                      denom_word == frac_tokens[Len(frac_tokens)]
                      denom_opt == denominator_from_word(denom_word)
                  IN  IF ~integer.ok THEN integer
                      ELSE IF ~denom_opt.ok
                      THEN Raise("ValueError: Unknown denominator word")
                      ELSE LET denom == denom_opt.val
                               frac_num == IF denom >= 1000
                                           THEN words_to_int_0_999999(frac_num_tokens)
                                           ELSE words_to_int_0_99(frac_num_tokens)
                           IN  IF ~frac_num.ok THEN frac_num
                               ELSE IF ~(0 <= frac_num.val /\ frac_num.val < denom)
                               THEN Raise("ValueError: Fractional part out of bounds")
                               ELSE Ok(FAdd(Fraction(integer.val, 1),
                                            Fraction(frac_num.val, denom)))
    ELSE LET integer == words_to_int_0_99(tokens)
         IN  IF ~integer.ok THEN integer ELSE Ok(Fraction(integer.val, 1))

-----------------------------------------------------------------------------
(* sem1_prog_task-2/main.py: the word renderer *)

\* f"{a} {b}"
Spaced(a, b) == a \o <<SPACE>> \o b

int_0_99_to_words(n) ==
    IF n < 10 THEN UNITS_R[n]
    ELSE IF 10 <= n /\ n <= 19 THEN TEENS_R[n]
    ELSE IF n % 10 = 0 THEN TENS_R[n]
    ELSE LET tens == (n \div 10) * 10
             units == n % 10
         IN  Spaced(TENS_R[tens], UNITS_R[units])

int_0_999_to_words(n) ==
    IF n < 100 THEN int_0_99_to_words(n)
    ELSE LET hundreds == (n \div 100) * 100
             remainder == n % 100
             parts == IF remainder # 0
                      THEN <<HUNDREDS[hundreds], int_0_99_to_words(remainder)>>
                      ELSE <<HUNDREDS[hundreds]>>
         IN  Join(parts)

\* The form chosen from the last digit alone, without the test for 11..14.
thousands_form_last_digit(count) ==
    LET last == count % 10
        key == IF last = 1 THEN "one"
               ELSE IF last \in {2, 3, 4} THEN "few"
               ELSE "many"
    IN  THOUSAND_FORMS[key]

thousands_form(count) ==
    LET last_two == count % 100
        last == count % 10
        key == IF 11 <= last_two /\ last_two <= 14 THEN "many"
               ELSE IF last = 1 THEN "one"
               ELSE IF last \in {2, 3, 4} THEN "few"
               ELSE "many"
    IN  THOUSAND_FORMS[key]

\* parts[-1] = "odna" / "dve" when it is "odin" / "dva"
FeminizeLast(parts) ==
    IF parts = <<>> THEN parts
    ELSE IF parts[Len(parts)] = W_odin THEN [parts EXCEPT ![Len(parts)] = W_odna]
    ELSE IF parts[Len(parts)] = W_dva THEN [parts EXCEPT ![Len(parts)] = W_dve]
    ELSE parts

MILLION == 1000000

int_to_words_ru(n) ==
    IF n = 0 THEN Ok(W_nol)
    ELSE IF n < 0 THEN Raise("NotImplementedError: Negative numbers are not supported")
    ELSE IF n < 100 THEN Ok(int_0_99_to_words(n))
    ELSE IF n < 1000 THEN Ok(int_0_999_to_words(n))
    ELSE IF n < MILLION
    THEN LET thousands == n \div 1000
             remainder == n % 1000
             th_words == Join(FeminizeLast(Split(int_0_999_to_words(thousands))))
             th_part == Spaced(th_words, thousands_form(thousands))
         IN  IF remainder # 0
             THEN Ok(Spaced(th_part, int_0_999_to_words(remainder)))
             ELSE Ok(th_part)
    ELSE Raise("NotImplementedError: Numbers >= 10000 are not supported")

\* The denominator words known only up to thousandths.
denom_word_to_thousandths(denom, numerator) ==
    IF denom \notin {10, 100, 1000}
    THEN Raise("ValueError: Unsupported denominator")
    ELSE LET sing == DENOM_FORMS[denom][1]
             plural == DENOM_FORMS[denom][2]
             last_two == numerator % 100
             singular == (last_two % 10 = 1) /\ (last_two # 11)
         IN  Ok(IF singular THEN sing ELSE plural)

denom_word(denom, numerator) ==
    IF denom \notin DOMAIN DENOM_FORMS
    THEN Raise("ValueError: Unsupported denominator")
    ELSE LET sing == DENOM_FORMS[denom][1]
             plural == DENOM_FORMS[denom][2]
             last_two == numerator % 100
             singular == (last_two % 10 = 1) /\ (last_two # 11)
         IN  Ok(IF singular THEN sing ELSE plural)

\* str(digit) for a digit 0..9
DigitChar(d) == CHOOSE c \in DOMAIN DECIMALS : DECIMALS[c] = d

digits_to_words(d) == Join([i \in 1..Len(d) |-> UNITS_R[DECIMALS[d[i]]]])

RECURSIVE count_factor(_, _)
count_factor(n, p) ==
    IF n % p = 0 /\ n > 0 THEN 1 + count_factor(n \div p, p) ELSE 0

feminize_last_word(words) ==
    LET parts == Split(words)
    IN  IF parts = <<>> THEN words ELSE Join(FeminizeLast(parts))

RECURSIVE Pow10(_)
Pow10(k) == IF k = 0 THEN 1 ELSE 10 * Pow10(k - 1)

Max(a, b) == IF a >= b THEN a ELSE b

\* The cap of the long division and the number of period digits displayed.
MAX_DIGITS == 200
MAX_PERIOD == 4

\* The locals of the long-division loop of rational_to_words.
LoopStart(r0) ==
    [r |-> r0, pos |-> 0, digits |-> <<>>, seen |-> [z \in {} |-> 0],
     period_digits |-> <<>>, at |-> "while"]

\* The while condition without the cap on pos.
LoopCond_uncapped(st) == st.r # 0

\* The while condition.
LoopCond(st) == st.r # 0 /\ st.pos < MAX_DIGITS

\* One pass of the loop body: the break on a remainder seen before, or a digit.
LoopBody(st, q) ==
    IF st.r \in DOMAIN st.seen
    THEN LET start == st.seen[st.r]
         IN  [st EXCEPT !.period_digits = SubSeq(st.digits, start + 1, Len(st.digits)),
                        !.at = "limit"]
    ELSE LET r10 == st.r * 10
             digit == r10 \div q
         IN  [st EXCEPT !.seen = st.seen @@ (st.r :> st.pos),
                        !.r = r10 % q,
                        !.digits = Append(st.digits, DigitChar(digit)),
                        !.pos = st.pos + 1]

\* The else of the while: the condition failed without a break.
LoopElse(st) == [st EXCEPT !.period_digits = st.digits, !.at = "limit"]

\* if len(period_digits) > 4: period_digits = period_digits[:4]
LimitPeriod(st) ==
    [st EXCEPT !.period_digits = IF Len(st.period_digits) > MAX_PERIOD
                                 THEN SubSeq(st.period_digits, 1, MAX_PERIOD)
                                 ELSE st.period_digits,
               !.at = "done"]

\* One test of the while condition, with the pass of the body or the else it
\* leads to.
WhileStep(st, q) == IF LoopCond(st) THEN LoopBody(st, q) ELSE LoopElse(st)

\* n steps of the while loop, or fewer when it ends; evaluated by halving.
RECURSIVE WhileSteps(_, _, _)
WhileSteps(st, q, n) ==
    IF n = 0 \/ st.at # "while" THEN st
    ELSE IF n = 1 THEN WhileStep(st, q)
    ELSE WhileSteps(WhileSteps(st, q, n \div 2), q, n - (n \div 2))

\* The while loop run to its end: at most MAX_DIGITS passes that produce a
\* digit, then the break or the else.
WhileLoop(st, q) == WhileSteps(st, q, MAX_DIGITS + 1)

RunLoop(st, q) == LimitPeriod(WhileLoop(st, q))

\* <<(rem * 10^k) // q, (rem * 10^k) % q>> for 0 <= rem < q, exactly as on
\* Python's unbounded integers: the product is never formed, one factor of
\* ten is carried through the quotient and the remainder at a time.
RECURSIVE ScaledDivMod(_, _, _)
ScaledDivMod(rem, k, q) ==
    IF k = 0 THEN <<rem \div q, rem % q>>
    ELSE LET p == ScaledDivMod(rem, k - 1, q)
         IN  <<p[1] * 10 + ((p[2] * 10) \div q), (p[2] * 10) % q>>

\* The finite part scaled by the smaller of the two exponents: factors of 2 or
\* 5 are left in the denominator of the remainder.
FinitePart_min_exponent(x) ==
    LET int_part == x.numerator \div x.denominator
        rem == x.numerator % x.denominator
        q == x.denominator
        c2 == count_factor(q, 2)
        c5 == count_factor(q, 5)
        k == IF c2 <= c5 THEN c2 ELSE c5
        pow10 == IF k > 0 THEN Pow10(k) ELSE 1
        dr == ScaledDivMod(rem, k, q)
    IN  [int_part |-> int_part, rem |-> rem, q |-> q, k |-> k, pow10 |-> pow10,
         d |-> dr[1], r |-> dr[2]]

\* The locals of rational_to_words before the repeating part, for x >= 0 with a
\* non-zero fractional remainder.
FinitePart(x) ==
    LET int_part == x.numerator \div x.denominator
        rem == x.numerator % x.denominator
        q == x.denominator
        c2 == count_factor(q, 2)
        c5 == count_factor(q, 5)
        k == Max(c2, c5)
        pow10 == IF k > 0 THEN Pow10(k) ELSE 1
        dr == ScaledDivMod(rem, k, q)
    IN  [int_part |-> int_part, rem |-> rem, q |-> q, k |-> k, pow10 |-> pow10,
         d |-> dr[1], r |-> dr[2]]

\* f"i {d_words} {denom_word}"
FiniteWords(f) ==
    LET dw == denom_word(f.pow10, f.d)
        d_words == int_to_words_ru(f.d)
    IN  IF ~dw.ok THEN dw
        ELSE IF ~d_words.ok THEN d_words
        ELSE Ok(Spaced(W_i, Spaced(feminize_last_word(d_words.val), dw.val)))

\* f"i {_digits_to_words(period_digits)} v periode"
PeriodWords(period_digits) ==
    Spaced(W_i, Spaced(digits_to_words(period_digits), Spaced(W_v, W_periode)))

rational_to_words(x) ==
    IF x.numerator < 0
    THEN Raise("NotImplementedError: Negative numbers are not supported")
    ELSE IF x.numerator % x.denominator = 0
    THEN int_to_words_ru(x.numerator \div x.denominator)
    ELSE LET f == FinitePart(x)
             int_words == int_to_words_ru(f.int_part)
             finite == IF f.k > 0 /\ f.d > 0 THEN FiniteWords(f) ELSE Ok(<<>>)
         IN  IF ~int_words.ok THEN int_words
             ELSE IF ~finite.ok THEN finite
             ELSE LET parts1 == IF f.k > 0 /\ f.d > 0
                                THEN <<int_words.val, finite.val>>
                                ELSE <<int_words.val>>
                      parts_out ==
                          IF f.r # 0
                          THEN Append(parts1,
                                      PeriodWords(RunLoop(LoopStart(f.r), f.q).period_digits))
                          ELSE parts1
                  IN  Ok(Join(parts_out))

-----------------------------------------------------------------------------
(* sem1_prog_task-2/main.py: expressions *)

ParsedExpr(left, op, right) == [left |-> left, op |-> op, right |-> right]

\* tokens[i : i + L] == pat, for a 1-based i
MatchesAt(tokens, i, pat) ==
    /\ i - 1 + Len(pat) <= Len(tokens)
    /\ SubSeq(tokens, i, i - 1 + Len(pat)) = pat

\* The inner loop keeping the last pattern that matches at i instead of
\* leaving at the first.
FirstPatternFrom_last_match(tokens, i, p) ==
    LET ms == {m \in p..Len(OP_PATTERNS) : MatchesAt(tokens, i, OP_PATTERNS[m][1])}
    IN  IF ms = {} THEN 0 ELSE CHOOSE m \in ms : \A m2 \in ms : m2 <= m

\* The inner for loop at position i, from pattern p on: the first pattern of
\* OP_PATTERNS that matches at i, or 0.
RECURSIVE FirstPatternFrom(_, _, _)
FirstPatternFrom(tokens, i, p) ==
    IF p > Len(OP_PATTERNS) THEN 0
    ELSE IF MatchesAt(tokens, i, OP_PATTERNS[p][1]) THEN p
    ELSE FirstPatternFrom(tokens, i, p + 1)

\* The outer for loop from position i on: the locals it leaves.
RECURSIVE ScanFrom(_, _)
ScanFrom(tokens, i) ==
    IF i > Len(tokens)
    THEN [op_symbol |-> None, left_tokens |-> None, right_tokens |-> None]
    ELSE LET p == FirstPatternFrom(tokens, i, 1)
         IN  IF p # 0
             THEN [op_symbol |-> OP_PATTERNS[p][2],
                   left_tokens |-> SubSeq(tokens, 1, i - 1),
                   right_tokens |-> SubSeq(tokens, i + Len(OP_PATTERNS[p][1]),
                                           Len(tokens))]
             ELSE ScanFrom(tokens, i + 1)

Tokenize(expr) == Split(Lower(Strip(expr)))

parse_expression(expr) ==
    LET tokens == Tokenize(expr)
        m == ScanFrom(tokens, 1)
    IN  IF tokens = <<>> THEN Raise("ValueError: Empty expression")
        ELSE IF m.op_symbol = None
        THEN Raise("ValueError: Operation not found in expression")
        ELSE IF m.left_tokens = <<>> \/ m.right_tokens = <<>>
        THEN Raise("ValueError: Invalid format")
        ELSE LET a == parse_number(m.left_tokens)
                 b == parse_number(m.right_tokens)
             IN  IF ~a.ok THEN a
                 ELSE IF ~b.ok THEN b
                 ELSE Ok(ParsedExpr(a.val, m.op_symbol, b.val))

\* The if/elif chain of calc on a parsed expression.
Evaluate(parsed) ==
    LET a == parsed.left
        b == parsed.right
        op == parsed.op
    IN  IF op = "+" THEN Ok(FAdd(a, b))
        ELSE IF op = "-" THEN Ok(FSub(a, b))
        ELSE IF op = "*" THEN Ok(FMul(a, b))
        ELSE IF op = "/"
        THEN IF b = ZERO THEN Raise("ZeroDivisionError: Division by zero")
             ELSE Ok(FDiv(a, b))
        ELSE IF op = "%"
        THEN IF b = ZERO THEN Raise("ZeroDivisionError: Modulo by zero")
             ELSE Ok(FMod(a, b))
        ELSE Raise("ValueError: Unknown operation")

calc(expr) ==
    LET parsed == parse_expression(expr)
        res == IF parsed.ok THEN Evaluate(parsed.val) ELSE parsed
    IN  IF ~parsed.ok THEN parsed
        ELSE IF ~res.ok THEN res
        ELSE rational_to_words(res.val)

-----------------------------------------------------------------------------
(* The programs at rest: each specification runs one of them. *)

GameIdle ==
    /\ board = make_empty_board
    /\ current = PLAYERS[1]
    /\ move_number = 0
    /\ gpc = "ended"
    /\ output = ""

CalcIdle ==
    /\ c_expr = <<>>
    /\ c_pc = "idle"
    /\ c_scan = Nothing
    /\ c_parsed = Nothing
    /\ c_res = Nothing
    /\ c_words = Nothing

TripIdle ==
    /\ t_value = Nothing
    /\ t_pc = "idle"
    /\ t_words = Nothing
    /\ t_back = Nothing

LoopIdle ==
    /\ l_x = ZERO
    /\ l_q = 1
    /\ loop = [LoopStart(0) EXCEPT !.at = "idle"]

-----------------------------------------------------------------------------
(* The game: main() of sem1_prog_tic-tac-toe/main.py *)

GameInit ==
    /\ board = make_empty_board
    /\ current = PLAYERS[1]
    /\ move_number = 0
    /\ gpc = "input"
    /\ output = MSG_PROMPT
    /\ CalcIdle /\ TripIdle /\ LoopIdle

GameNext ==
    \/ \E line \in GameInputs : RejectInput(line)
    \/ \E line \in GameInputs : InputFault(line)
    \/ \E line \in GameInputs : Quit(line)
    \/ \E line \in GameInputs : Occupied(line)
    \/ \E line \in GameInputs : Move(line)
    \/ Interrupt

SpecGame == GameInit /\ [][GameNext]_vars

-----------------------------------------------------------------------------
(* The calculator: calc(expr), in its three steps *)

\* The operand phrases and operator phrases that the expressions are made of.
Phrase(ws) == Join(ws)

CalcOperands ==
    {Phrase(<<W_nol>>), Phrase(<<W_odin>>), Phrase(<<W_dva>>), Phrase(<<W_tri>>),
     Phrase(<<W_sem>>), Phrase(<<W_dvadcat, W_odin>>), Phrase(<<W_tridcat>>),
     Phrase(<<W_shestdesyat, W_chetyre>>), Phrase(<<W_devyanosto, W_devyat>>),
     Phrase(<<W_nol, W_i, W_pyat, W_desyatyh>>),
     Phrase(<<W_odin, W_i, W_dvadcat, W_pyat, W_sotyh>>),
     Phrase(<<W_nol, W_i, W_odna, W_tysyachnaya>>),
     Phrase(<<W_dva, W_i, W_dvadcat, W_tri, W_sotyh>>),
     Phrase(<<W_sto>>)}

CalcOperators == {Phrase(OP_PATTERNS[p][1]) : p \in 1..Len(OP_PATTERNS)}

CalcExtras ==
    {Phrase(<<W_devyanosto, W_devyat, W_razdelit, W_na,
              W_nol, W_i, W_odna, W_stotysyachnaya>>),
     <<SPACE>> \o Phrase(<<<<"O", "d", "i", "n">>, <<"P", "l", "yu", "s">>, W_dva>>)
         \o <<SPACE, SPACE>>,
     <<>>}

CalcInputs ==
    {Spaced(a, Spaced(o, b)) : a \in CalcOperands, o \in CalcOperators, b \in CalcOperands}
        \cup CalcExtras

\* Every sequence of at most MaxTokens of the words an operator is made of,
\* and of two operand words.
MaxTokens == 4

MatchWords ==
    {W_ostatok, W_ot, W_deleniya, W_na, W_razdelit, W_plyus, W_odin}

RECURSIVE TokenSeqs(_)
TokenSeqs(n) ==
    IF n = 0 THEN {<<>>}
    ELSE LET shorter == TokenSeqs(n - 1)
         IN  shorter \cup {Append(ts, w) : ts \in {t \in shorter : Len(t) = n - 1},
                                          w \in MatchWords}

MatchInputs == {Join(ts) : ts \in TokenSeqs(MaxTokens)}

CalcStart(inputs) ==
    /\ c_expr \in inputs
    /\ c_pc = "start"
    /\ c_scan = Nothing
    /\ c_parsed = Nothing
    /\ c_res = Nothing
    /\ c_words = Nothing
    /\ GameIdle /\ TripIdle /\ LoopIdle

\* parsed = parse_expression(expr)
ParseExpression ==
    /\ c_pc = "start"
    /\ c_scan' = [tokens |-> Tokenize(c_expr)] @@ ScanFrom(Tokenize(c_expr), 1)
    /\ c_parsed' = parse_expression(c_expr)
    /\ c_pc' = IF c_parsed'.ok THEN "evaluate" ELSE "raised"
    /\ UNCHANGED <<c_expr, c_res, c_words>>
    /\ UNCHANGED <<gameVars, tripVars, loopVars>>

\* the if/elif chain on the operation
EvaluateParsed ==
    /\ c_pc = "evaluate"
    /\ c_res' = Evaluate(c_parsed.val)
    /\ c_pc' = IF c_res'.ok THEN "render" ELSE "raised"
    /\ UNCHANGED <<c_expr, c_scan, c_parsed, c_words>>
    /\ UNCHANGED <<gameVars, tripVars, loopVars>>

\* return rational_to_words(res)
RenderResult ==
    /\ c_pc = "render"
    /\ c_words' = rational_to_words(c_res.val)
    /\ c_pc' = IF c_words'.ok THEN "returned" ELSE "raised"
    /\ UNCHANGED <<c_expr, c_scan, c_parsed, c_res>>
    /\ UNCHANGED <<gameVars, tripVars, loopVars>>

CalcNext == ParseExpression \/ EvaluateParsed \/ RenderResult

SpecCalc == CalcStart(CalcInputs) /\ [][CalcNext]_vars

SpecMatch == CalcStart(MatchInputs \cup CalcInputs) /\ [][CalcNext]_vars

-----------------------------------------------------------------------------
(* Render and parse back: int_to_words_ru / rational_to_words, then            *)
(* parse_number on the tokens of the words                                    *)

\* The integers rendered: 0..MaxInt, the thousands counts 1..MaxCount with the
\* remainders of ThousandRems, and some larger ones.
MaxInt == 130
MaxCount == 125

ThousandRems == {0, 1, 512}

IntSamples == {999, 211000, 312002, 514000, 900000, 901001, 999999}

IntValues ==
    (0..MaxInt) \cup {c * 1000 + m : c \in 1..MaxCount, m \in ThousandRems}
        \cup IntSamples

\* The fractions k/d rendered: the six denominators with the numerators
\* 0..MaxNumerator and some larger ones, below d.
MaxNumerator == 125

Denominators == {10, 100, 1000, 10000, 100000, 1000000}

NumeratorSamples ==
    {250, 500, 999, 1000, 1001, 2001, 2002, 5000, 9999, 11000, 12345, 21000, 21001,
     99999, 100000, 100001, 123456, 500000, 900002, 999999}

FracValues ==
    {kd \in ((0..MaxNumerator) \cup NumeratorSamples) \X Denominators : kd[1] < kd[2]}

TripInit ==
    /\ t_value \in {[kind |-> "int", n |-> n, k |-> 0, d |-> 1] : n \in IntValues}
                     \cup {[kind |-> "frac", n |-> 0, k |-> kd[1], d |-> kd[2]] :
                             kd \in FracValues}
    /\ t_pc = "start"
    /\ t_words = Nothing
    /\ t_back = Nothing
    /\ GameIdle /\ CalcIdle /\ LoopIdle

\* words = int_to_words_ru(n)
RenderInteger ==
    /\ t_pc = "start" /\ t_value.kind = "int"
    /\ t_words' = int_to_words_ru(t_value.n)
    /\ t_pc' = "rendered"
    /\ UNCHANGED <<t_value, t_back>>
    /\ UNCHANGED <<gameVars, calcVars, loopVars>>

\* words = rational_to_words(Fraction(k, d))
RenderFraction ==
    /\ t_pc = "start" /\ t_value.kind = "frac"
    /\ t_words' = rational_to_words(Fraction(t_value.k, t_value.d))
    /\ t_pc' = "rendered"
    /\ UNCHANGED <<t_value, t_back>>
    /\ UNCHANGED <<gameVars, calcVars, loopVars>>

\* parse_number(words.split())
ParseBack ==
    /\ t_pc = "rendered" /\ t_words.ok
    /\ t_back' = parse_number(Split(t_words.val))
    /\ t_pc' = "parsed"
    /\ UNCHANGED <<t_value, t_words>>
    /\ UNCHANGED <<gameVars, calcVars, loopVars>>

TripNext == RenderInteger \/ RenderFraction \/ ParseBack

SpecTrip == TripInit /\ [][TripNext]_vars

-----------------------------------------------------------------------------
(* The long division of rational_to_words, pass by pass *)

\* The values given to rational_to_words: p / d for 1 <= p, d <= MaxOperand
\* (calc of "p razdelit' na d"), and quotients of decimal operands whose
\* periods are longer than the cap.
MaxOperand == 32

LongPeriods == {Fraction(100, 223), Fraction(1, 2230), Fraction(300, 223)}

LoopValues ==
    {Fraction(p, d) : p \in 1..MaxOperand, d \in 1..MaxOperand} \cup LongPeriods

LoopInit ==
    /\ l_x \in LoopValues
    /\ l_q = 1
    /\ loop = [LoopStart(0) EXCEPT !.at = "start"]
    /\ GameIdle /\ CalcIdle /\ TripIdle

\* rational_to_words up to the loop: q, the finite part, the remainder r.
EnterLoop ==
    /\ loop.at = "start"
    /\ LET f == FinitePart(l_x)
       IN  /\ l_q' = f.q
           /\ loop' = IF f.rem # 0 /\ f.r # 0
                      THEN LoopStart(f.r)
                      ELSE [LoopStart(f.r) EXCEPT !.at = "done"]
    /\ UNCHANGED l_x
    /\ UNCHANGED <<gameVars, calcVars, tripVars>>

\* A pass of the loop that produces a digit.
LoopDigit ==
    /\ loop.at = "while" /\ LoopCond(loop) /\ loop.r \notin DOMAIN loop.seen
    /\ loop' = LoopBody(loop, l_q)
    /\ UNCHANGED <<l_x, l_q>>
    /\ UNCHANGED <<gameVars, calcVars, tripVars>>

\* The pass that finds the remainder in seen, and breaks.
LoopBreak ==
    /\ loop.at = "while" /\ LoopCond(loop) /\ loop.r \in DOMAIN loop.seen
    /\ loop' = LoopBody(loop, l_q)
    /\ UNCHANGED <<l_x, l_q>>
    /\ UNCHANGED <<gameVars, calcVars, tripVars>>

\* The while condition fails: the else of the loop.
LoopExhausted ==
    /\ loop.at = "while" /\ ~LoopCond(loop)
    /\ loop' = LoopElse(loop)
    /\ UNCHANGED <<l_x, l_q>>
    /\ UNCHANGED <<gameVars, calcVars, tripVars>>

\* The period is cut to the digits displayed.
LoopLimit ==
    /\ loop.at = "limit"
    /\ loop' = LimitPeriod(loop)
    /\ UNCHANGED <<l_x, l_q>>
    /\ UNCHANGED <<gameVars, calcVars, tripVars>>

LoopNext == EnterLoop \/ LoopDigit \/ LoopBreak \/ LoopExhausted \/ LoopLimit

SpecLoop == LoopInit /\ [][LoopNext]_vars

\* The loop is not interrupted: a call of rational_to_words runs to its end.
SpecLoopFair == SpecLoop /\ WF_vars(LoopNext)

-----------------------------------------------------------------------------
(* Properties of the number parser and the word renderer (SpecTrip) *)

\* C1. Integer round trip: for every integer n in [0, 999999], parse_number on
\* the tokens of int_to_words_ru(n) returns exactly n.
C1_IntegerRoundTrip ==
    (t_pc = "parsed" /\ t_value.kind = "int")
        => (t_back.ok /\ t_back.val = Fraction(t_value.n, 1))

\* C2. Fraction round trip: for every denominator d of the six powers of ten
\* and every 0 <= k < d, rational_to_words renders k/d and parse_number on the
\* tokens of the words returns a value equal to k/d, also when k/d reduces.
C2_FractionRoundTrip ==
    (t_value.kind = "frac" /\ t_pc # "start")
        => /\ t_words.ok
           /\ t_pc = "parsed" => (t_back.ok /\ t_back.val = Fraction(t_value.k, t_value.d))

\* 50/100 is rendered as five tenths and parsed back as 1/2.
C2_Witness ==
    /\ t_pc = "parsed"
    /\ t_value.kind = "frac" /\ t_value.k = 50 /\ t_value.d = 100
    /\ t_words = Ok(Phrase(<<W_nol, W_i, W_pyat, W_desyatyh>>))
    /\ t_back = Ok([numerator |-> 1, denominator |-> 2])

\* C6. Thousands agreement: for n in [1000, 999999] with count = n div 1000,
\* the words begin with the words of count, the last of them "odna" / "dve"
\* in place of "odin" / "dva", and the next word is "tysyach" when count mod
\* 100 is in 11..14, else "tysyacha" when count mod 10 = 1, else "tysyachi"
\* when count mod 10 is in {2, 3, 4}, else "tysyach".
C6_ThousandsAgreement ==
    (t_value.kind = "int" /\ t_pc # "start" /\ t_value.n >= 1000)
        => /\ t_words.ok
           /\ LET count == t_value.n \div 1000
                  cw == Split(int_0_999_to_words(count))
                  ws == Split(t_words.val)
                  form == IF (count % 100) \in 11..14 THEN W_tysyach
                          ELSE IF count % 10 = 1 THEN W_tysyacha
                          ELSE IF (count % 10) \in {2, 3, 4} THEN W_tysyachi
                          ELSE W_tysyach
                  last == cw[Len(cw)]
              IN  /\ Len(ws) > Len(cw)
                  /\ ws[Len(cw) + 1] = form
                  /\ SubSeq(ws, 1, Len(cw) - 1) = SubSeq(cw, 1, Len(cw) - 1)
                  /\ ws[Len(cw)] = IF last = W_odin THEN W_odna
                                   ELSE IF last = W_dva THEN W_dve
                                   ELSE last

\* 21000 is rendered "dvadcat' odna tysyacha".
C6_Witness ==
    /\ t_pc # "start"
    /\ t_value.kind = "int" /\ t_value.n = 21000
    /\ t_words = Ok(Phrase(<<W_dvadcat, W_odna, W_tysyacha>>))

-----------------------------------------------------------------------------
(* Properties of parse_expression (SpecMatch) *)

\* Pattern p of OP_PATTERNS stands at position i of the tokens ts.
PatternAt(ts, i, p) ==
    LET pat == OP_PATTERNS[p][1]
    IN  \A j \in 1..Len(pat) : i + j - 1 <= Len(ts) /\ ts[i + j - 1] = pat[j]

\* C3. Operator matching: the operator chosen is the one at the smallest
\* position at which any pattern matches and, among the patterns matching
\* there, the first in OP_PATTERNS order, which is the longest one (so
\* "razdelit'" followed by "na" is taken as the two-word operator); the left
\* operand is the tokens before it, the right operand the tokens after the
\* pattern, and an empty operand is an error; with no match at all,
\* parse_expression fails.
C3_OperatorMatching ==
    (c_pc # "start") =>
        LET ts == c_scan.tokens
            P == 1..Len(OP_PATTERNS)
        IN  IF \A i \in 1..Len(ts) : \A p \in P : ~PatternAt(ts, i, p)
            THEN c_scan.op_symbol = None /\ ~c_parsed.ok
            ELSE \E i \in 1..Len(ts) : \E p \in P :
                   /\ PatternAt(ts, i, p)
                   /\ \A j \in 1..(i - 1) : \A p2 \in P : ~PatternAt(ts, j, p2)
                   /\ \A p2 \in 1..(p - 1) : ~PatternAt(ts, i, p2)
                   /\ \A p2 \in P :
                        PatternAt(ts, i, p2)
                            => Len(OP_PATTERNS[p2][1]) <= Len(OP_PATTERNS[p][1])
                   /\ (ts[i] = W_razdelit /\ i < Len(ts) /\ ts[i + 1] = W_na)
                        => OP_PATTERNS[p][1] = <<W_razdelit, W_na>>
                   /\ c_scan.op_symbol = OP_PATTERNS[p][2]
                   /\ c_scan.left_tokens = SubSeq(ts, 1, i - 1)
                   /\ c_scan.right_tokens =
                          SubSeq(ts, i + Len(OP_PATTERNS[p][1]), Len(ts))
                   /\ (c_scan.left_tokens = <<>> \/ c_scan.right_tokens = <<>>)
                        => ~c_parsed.ok

\* "odin razdelit' na odin": the two-word operator between two operands.
C3_Witness ==
    /\ c_pc # "start"
    /\ c_scan.tokens = <<W_odin, W_razdelit, W_na, W_odin>>
    /\ c_scan.op_symbol = "/"
    /\ c_scan.left_tokens = <<W_odin>>
    /\ c_scan.right_tokens = <<W_odin>>
    /\ c_parsed.ok

-----------------------------------------------------------------------------
(* Properties of calc (SpecCalc) *)

\* rational_to_words was called on the result of the operation.
Rendering == c_res.ok /\ c_pc \in {"returned", "raised"}

IntegerPart(v) == v.numerator \div v.denominator

\* C4, as claimed. The renderer fails only for magnitude or sign: for every
\* non-negative value with an integer part below 1,000,000 that calc
\* computes, rational_to_words returns words.
C4_FailsOnlyForMagnitudeOrSign ==
    (Rendering /\ c_res.val.numerator >= 0 /\ IntegerPart(c_res.val) < MILLION)
        => c_words.ok

\* The finite part of v has more digits than there are denominator words:
\* k = max(exponent of 2, exponent of 5) of the denominator exceeds 6 and the
\* first k decimals are not all zero.
LongFinitePart(v) ==
    LET rem == v.numerator % v.denominator
        k == Max(count_factor(v.denominator, 2), count_factor(v.denominator, 5))
    IN  rem # 0 /\ k > 6 /\ ScaledDivMod(rem, k, v.denominator)[1] > 0

\* C4, amended. For every non-negative value with an integer part below
\* 1,000,000 that calc computes, rational_to_words returns words unless the
\* value has a non-zero finite part of more than 6 digits, and then it
\* raises ValueError (unsupported denominator).
C4_FailsAlsoForLongFinitePart ==
    (Rendering /\ c_res.val.numerator >= 0 /\ IntegerPart(c_res.val) < MILLION)
        => IF LongFinitePart(c_res.val)
           THEN c_words = Raise("ValueError: Unsupported denominator")
           ELSE c_words.ok

\* 0.001 * 0.001: a product of decimal operands rendered in millionths.
C4_Witness ==
    /\ c_pc = "returned"
    /\ c_parsed.ok /\ c_parsed.val.op = "*"
    /\ c_res = Ok([numerator |-> 1, denominator |-> 1000000])
    /\ c_words = Ok(Phrase(<<W_nol, W_i, W_odna, W_millionnaya>>))

\* C5. Negative results are a failure, never output: the parsed operands are
\* non-negative; for a < b, calc with "-" ends in an error and renders no
\* words; the result of every other operation is never negative.
C5_NegativeIsFailure ==
    c_parsed.ok =>
        LET a == c_parsed.val.left
            b == c_parsed.val.right
            op == c_parsed.val.op
        IN  /\ a.numerator >= 0 /\ b.numerator >= 0
            /\ (op = "-" /\ FLess(a, b) /\ c_pc \notin {"evaluate", "render"})
                 => (c_pc = "raised" /\ ~c_words.ok)
            /\ (op # "-" /\ c_res.ok) => c_res.val.numerator >= 0

\* "odin minus dva" ends in the renderer's error for negative numbers.
C5_Witness ==
    /\ c_pc = "raised"
    /\ c_parsed = Ok(ParsedExpr(Fraction(1, 1), "-", Fraction(2, 1)))
    /\ c_res = Ok(Fraction(-1, 1))
    /\ c_words = Raise("NotImplementedError: Negative numbers are not supported")

\* The digits of the repeating cycle of v, before they are cut to four.
Cycle(v) ==
    LET f == FinitePart(v)
    IN  IF f.rem = 0 \/ f.r = 0 THEN <<>>
        ELSE WhileLoop(LoopStart(f.r), f.q).period_digits

\* The values the result is compared with: p / d of small operands.
CompareValues == {Fraction(p, d) : p \in 1..3, d \in 1..MaxOperand}

\* C7. Rendering is exact: two distinct non-negative values that are rendered
\* without error and whose cycles have at most 4 digits have different words.
C7_RenderingIsInjective ==
    (c_pc = "returned" /\ Len(Cycle(c_res.val)) <= MAX_PERIOD) =>
        \A y \in CompareValues :
            (y # c_res.val /\ Len(Cycle(y)) <= MAX_PERIOD /\ rational_to_words(y).ok)
                => rational_to_words(y).val # c_words.val

-----------------------------------------------------------------------------
(* Properties of the long division (SpecLoop, SpecLoopFair) *)

\* C8, in every state: at most 200 digits are produced, the period the loop
\* leaves is not empty, and at most 4 digits of it are kept for display.
C8_Bounded ==
    /\ loop.pos <= MAX_DIGITS
    /\ Len(loop.digits) = loop.pos
    /\ loop.at = "limit" => loop.period_digits # <<>>
    /\ (loop.at = "done" /\ loop.pos > 0)
         => (1 <= Len(loop.period_digits) /\ Len(loop.period_digits) <= MAX_PERIOD)

\* C8. Termination of cycle detection: the loop makes at most 200 digit steps
\* and then ends, by a repeated remainder, a zero remainder or the cap,
\* leaving a non-empty period of which at most 4 digits are rendered.
C8_LoopTerminates == []C8_Bounded /\ <>(loop.at = "done")

\* 100/223 (period 222): the loop ends by the cap, and four digits are kept.
C8_Witness ==
    /\ loop.at = "done"
    /\ l_x = Fraction(100, 223)
    /\ loop.pos = MAX_DIGITS
    /\ Len(loop.period_digits) = MAX_PERIOD

\* C9. The cycle starts at position 0: after the scaling by 10^k the remainder
\* never becomes 0 inside the loop, a remainder found in seen is the one
\* stored at position 0, and the period reported is the whole list of digits.
C9_CycleStartsAtZero ==
    /\ loop.at = "while" => loop.r # 0
    /\ (loop.at = "while" /\ loop.r \in DOMAIN loop.seen) => loop.seen[loop.r] = 0
    /\ loop.at = "limit" => loop.period_digits = loop.digits

\* 1/14: scaled by 10, then the six-digit cycle of 1/7 closes on its first
\* remainder.
C9_Witness ==
    /\ l_x = Fraction(1, 14)
    /\ loop.at = "while"
    /\ loop.pos = 6
    /\ loop.r \in DOMAIN loop.seen

-----------------------------------------------------------------------------
(* Properties of the game (SpecGame) *)

Marks(b, m) == Cardinality({rc \in (0..2) \X (0..2) : b[rc[1]][rc[2]] = m})

Lead == Marks(board, "X") - Marks(board, "O")

REJECTIONS == {MSG_TWO_NUMBERS, MSG_NOT_NUMBERS, MSG_RANGE, MSG_OCCUPIED}

\* The board holds move_number marks, and X moves first.
MarksCounted ==
    /\ Marks(board, "X") + Marks(board, "O") = move_number
    /\ move_number = 0 => current = "X"
    /\ move_number = 1 => Marks(board, "X") = 1

\* A rejected input leaves the board, move_number and current as they were.
RejectionKeeps ==
    [][output' \in REJECTIONS => UNCHANGED <<board, move_number, current>>]_vars

\* A mark is placed only on a free cell, by the current player, while there
\* is no winner and the board is not full.
MarksOnlyInPlay ==
    [][board' # board =>
          /\ check_winner(board) = None /\ ~board_full(board)
          /\ \E rc \in (0..2) \X (0..2) :
               /\ board[rc[1]][rc[2]] = EMPTY
               /\ board' = [board EXCEPT ![rc[1]][rc[2]] = current]]_vars

\* X leads by 0 when the current player is X and by 1 when it is O.
LeadOfCurrent ==
    /\ current = "X" => Lead = 0
    /\ current = "O" => Lead = 1

\* C10, as claimed: after any sequence of inputs the board holds move_number
\* marks, X leads by 0 when the current player is X and by 1 when it is O,
\* X moves first, a rejected input changes nothing, and no mark is placed
\* after a win or on a full board.
C10_TurnAlternation ==
    /\ [](MarksCounted /\ LeadOfCurrent)
    /\ RejectionKeeps
    /\ MarksOnlyInPlay

\* C10, amended: the lead is 0 for X and 1 for O to move while the loop is at
\* its prompt; the move that ends the game by a win or a draw leaves current
\* at the player who made it, so the lead is then 1 for X and 0 for O.
C10_TurnAlternationInPlay ==
    /\ [](/\ MarksCounted
          /\ gpc = "input" => (/\ current = "X" => Lead = 0
                               /\ current = "O" => Lead = 1)
          /\ output \in {MSG_WINS, MSG_DRAW} => (/\ gpc = "ended"
                                                 /\ current = "X" => Lead = 1
                                                 /\ current = "O" => Lead = 0))
    /\ RejectionKeeps
    /\ MarksOnlyInPlay

\* After three moves and a rejected fourth input, O is to move and X leads.
C10_Witness ==
    /\ gpc = "input"
    /\ move_number = 3
    /\ current = "O"
    /\ output = MSG_OCCUPIED
    /\ Lead = 1

====
